---- MODULE Spec2Model ----
(***************************************************************************)
(* Stock Data Explorer (stock_explorer.py): the menu loop of main, the     *)
(* prompts of analyze_stock, the CSV writers save_one_stock_to_csv and     *)
(* save_all_to_csv, view_stock_graph and exit_menu.                        *)
(*                                                                         *)
(* A text string is a sequence of tokens; " ", "_", ":", "-", "/" and      *)
(* ".csv" are tokens of their own, so that strip, replace, split, upper,   *)
(* lower and endswith act on the text as the Python calls do.  A record    *)
(* of summary statistics keeps stat1 (company), stat2 (date range) and     *)
(* stat3 (trading days); stat4..stat14 are formatted numbers of the same   *)
(* fetched table that no branch of the program reads.  A local that is     *)
(* assigned and read within one step between two input() calls is a LET;   *)
(* a local that is read after a later input() call is a variable.          *)
(***************************************************************************)
EXTENDS Integers, Sequences, FiniteSets, TLC

\* ------------------------------------------------------------------ bounds
\* all_stocks is not analysed past this many records
MaxStocks == 2
\* the CSV files are not written past this many data rows in all
MaxRows == 2

\* ------------------------------------------------------------- text helpers
RECURSIVE LStrip(_, _)
LStrip(s, chars) ==
    IF s # <<>> /\ Head(s) \in chars THEN LStrip(Tail(s), chars) ELSE s

RECURSIVE RStrip(_, _)
RStrip(s, chars) ==
    IF s # <<>> /\ s[Len(s)] \in chars
    THEN RStrip(SubSeq(s, 1, Len(s) - 1), chars)
    ELSE s

\* str.strip(chars)
StripChars(s, chars) == RStrip(LStrip(s, chars), chars)

\* str.strip()
Strip(s) == StripChars(s, {" "})

\* str.replace(a, b) for one-token a and b
Replace(s, a, b) == [i \in 1..Len(s) |-> IF s[i] = a THEN b ELSE s[i]]

UpperTok(t) ==
    CASE t = "aapl" -> "AAPL"
      [] t = "rddt" -> "RDDT"
      [] t = "zzzz" -> "ZZZZ"
      [] t = "y" -> "Y"
      [] t = "n" -> "N"
      [] OTHER -> t

LowerTok(t) ==
    CASE t = "Y" -> "y"
      [] t = "N" -> "n"
      [] t = "Company" -> "company"
      [] t = "Date" -> "date"
      [] t = "Range" -> "range"
      [] t = "Total" -> "total"
      [] t = "Trading" -> "trading"
      [] t = "Days" -> "days"
      [] OTHER -> t

\* str.upper()
Upper(s) == [i \in 1..Len(s) |-> UpperTok(s[i])]

\* str.lower()
Lower(s) == [i \in 1..Len(s) |-> LowerTok(s[i])]

\* str.endswith(".csv")
EndsWithCsv(s) == s # <<>> /\ s[Len(s)] = ".csv"

\* str.split(" ")[0]
RECURSIVE FirstWord(_)
FirstWord(s) ==
    IF s = <<>> \/ Head(s) = " " THEN <<>> ELSE <<Head(s)>> \o FirstWord(Tail(s))

\* ------------------------------------------------------------ int(input())
Digits == <<"0", "1", "2", "3", "4", "5", "6", "7", "8", "9">>

IsDigit(t) == \E i \in 1..10 : Digits[i] = t

DigitVal(t) == (CHOOSE i \in 1..10 : Digits[i] = t) - 1

RECURSIVE DigitsVal(_)
DigitsVal(s) ==
    IF s = <<>> THEN 0 ELSE 10 * DigitsVal(SubSeq(s, 1, Len(s) - 1)) + DigitVal(s[Len(s)])

AllDigits(s) == s # <<>> /\ \A i \in 1..Len(s) : IsDigit(s[i])

\* int(text.strip()): <<n>> for an integer literal, <<>> for ValueError
ParseInt(text) ==
    LET s == Strip(text) IN
    IF AllDigits(s) THEN <<DigitsVal(s)>>
    ELSE IF s # <<>> /\ Head(s) = "-" /\ AllDigits(Tail(s)) THEN <<0 - DigitsVal(Tail(s))>>
    ELSE IF s # <<>> /\ Head(s) = "+" /\ AllDigits(Tail(s)) THEN <<DigitsVal(Tail(s))>>
    ELSE <<>>

\* ------------------------------------------------------------------- dates
\* a date is <<year, month, day>>; None is <<>>
Pad2 == <<"01", "02", "03", "04", "05", "06", "07", "08", "09", "10",
          "11", "12", "13", "14", "15", "16", "17", "18", "19", "20",
          "21", "22", "23", "24", "25", "26", "27", "28", "29", "30", "31">>

IsLeap(y) == (y % 4 = 0 /\ y % 100 # 0) \/ y % 400 = 0

DaysInMonth(y, m) ==
    IF m = 2 THEN (IF IsLeap(y) THEN 29 ELSE 28)
    ELSE IF m \in {4, 6, 9, 11} THEN 30 ELSE 31

\* the fields %Y, %m and %d accept
YearVal(t) ==
    CASE t = "2024" -> 2024
      [] t = "2025" -> 2025
      [] OTHER -> 0

YearStr(y) == IF y = 2024 THEN "2024" ELSE "2025"

NumVal(t) == IF \E i \in 1..31 : Pad2[i] = t
             THEN CHOOSE i \in 1..31 : Pad2[i] = t
             ELSE IF IsDigit(t) THEN DigitVal(t)
             ELSE 0

\* datetime.datetime.strptime(d, "%Y-%m-%d").date(), <<>> on ValueError
ParseDate(d) ==
    IF Len(d) = 5 /\ d[2] = "-" /\ d[4] = "-"
       /\ YearVal(d[1]) # 0
       /\ NumVal(d[3]) \in 1..12
       /\ NumVal(d[5]) \in 1..DaysInMonth(YearVal(d[1]), NumVal(d[3]))
    THEN <<YearVal(d[1]), NumVal(d[3]), NumVal(d[5])>>
    ELSE <<>>

\* str(date): the ISO form
DateStr(d) == <<YearStr(d[1]), "-", Pad2[d[2]], "-", Pad2[d[3]]>>

DateLT(a, b) ==
    \/ a[1] < b[1]
    \/ a[1] = b[1] /\ a[2] < b[2]
    \/ a[1] = b[1] /\ a[2] = b[2] /\ a[3] < b[3]

DateGE(a, b) == ~DateLT(a, b)

DateGT(a, b) == DateLT(b, a)

\* datetime.date.today()
Today == <<2024, 3, 22>>

\* ------------------------------------------------------- the remote source
\* yf.Ticker(t).info.get("longName"); <<>> when the symbol is unknown
LongName(t) ==
    CASE t = <<"AAPL">> -> <<"Apple", " ", "Inc.">>
      [] t = <<"RDDT">> -> <<"Reddit,", " ", "Inc.">>
      [] OTHER -> <<>>

\* the days the remote source has a price bar of the symbol for, oldest
\* first (RDDT was first traded on 2024-03-21)
MarketDays(t) ==
    IF t = <<"RDDT">> THEN << <<2024, 3, 21>>, <<2024, 3, 22>> >>
    ELSE << <<2024, 3, 20>>, <<2024, 3, 21>>, <<2024, 3, 22>> >>

\* stock.history(start=start, end=end): the bars from start up to, not
\* including, end; nothing for an unknown symbol
History(t, start, end) ==
    IF LongName(t) = <<>> THEN <<>>
    ELSE SelectSeq(MarketDays(t), LAMBDA d : DateGE(d, start) /\ DateLT(d, end))

\* ------------------------------------------------------------ validation
NoTicker == [ticker |-> <<>>, long_name |-> <<>>]

validate_ticker(t) ==
    IF LongName(t) = <<>> THEN NoTicker
    ELSE [ticker |-> t, long_name |-> LongName(t)]

validate_date(d) == ParseDate(d)

\* ------------------------------------------------------ summary statistics
NoStats == [stat1 |-> <<>>, stat2 |-> <<>>, stat3 |-> <<>>]

\* f"{len(data):,}"
CountStr(n) == <<Digits[n + 1]>>

stock_summary_statistics(ticker, start, end) ==
    LET data == History(ticker.ticker, start, end) IN
    IF data = <<>> THEN NoStats
    ELSE [stat1 |-> ticker.ticker \o <<" ", "(">> \o ticker.long_name \o <<")">>,
          stat2 |-> DateStr(data[1]) \o <<" ", "to", " ">> \o DateStr(data[Len(data)]),
          stat3 |-> CountStr(Len(data))]

\* stat{i + 1} of a record
Stat(rec, i) == IF i = 1 THEN rec.stat1 ELSE IF i = 2 THEN rec.stat2 ELSE rec.stat3

\* a wrong key in the comparison: stat1 of the list against stat2 of the record
AlreadyAnalyzed_WrongKey(stocks, rec) ==
    \E i \in 1..Len(stocks) :
        stocks[i].stat1 = rec.stat2 /\ stocks[i].stat2 = rec.stat2

\* the loop of analyze_stock over all_stocks: a record with this stat1 and
\* stat2 is already in the list
AlreadyAnalyzed(stocks, rec) ==
    \E i \in 1..Len(stocks) :
        stocks[i].stat1 = rec.stat1 /\ stocks[i].stat2 = rec.stat2

\* the new record put in front of the list
Analyzed_Prepend(stocks, rec) ==
    IF AlreadyAnalyzed(stocks, rec) THEN stocks ELSE <<rec>> \o stocks

\* all_stocks after analyze_stock made the record rec
Analyzed(stocks, rec) ==
    IF AlreadyAnalyzed(stocks, rec) THEN stocks ELSE Append(stocks, rec)

\* only the start date compared with today
InFuture_StartOnly(start, end) == DateGT(start, Today)

\* start_date > datetime.date.today() or end_date > datetime.date.today()
InFuture(start, end) == DateGT(start, Today) \/ DateGT(end, Today)

\* ---------------------------------------------------------------- CSV files
summary_statistics_titles ==
    << <<"Company", ":", " ">>,
       <<"Date", " ", "Range", ":", " ">>,
       <<"Total", " ", "Trading", " ", "Days", ":", " ">> >>

\* title.strip(": ").lower().replace(" ", "_")
CleanTitle(title) == Replace(Lower(StripChars(title, {":", " "})), " ", "_")

cleaned_titles ==
    [i \in 1..Len(summary_statistics_titles) |-> CleanTitle(summary_statistics_titles[i])]

\* {title: sum_stats[f"stat{i + 1}"] for i, title in enumerate(cleaned_titles)}
RowOf(rec) ==
    [t \in {cleaned_titles[i] : i \in 1..Len(cleaned_titles)} |->
        Stat(rec, CHOOSE i \in 1..Len(cleaned_titles) : cleaned_titles[i] = t)]

\* csv.DictWriter(file, fieldnames=cleaned_titles).writerow(row): one line,
\* the fields in the order of fieldnames
WriteRow(row) == [i \in 1..Len(cleaned_titles) |-> row[cleaned_titles[i]]]

\* csv.DictReader(file): the first line names the fields of the others
ReadRows(content) ==
    IF content = <<>> THEN <<>>
    ELSE [k \in 1..(Len(content) - 1) |->
            [t \in {content[1][i] : i \in 1..Len(content[1])} |->
                content[k + 1][CHOOSE i \in 1..Len(content[1]) : content[1][i] = t]]]

FileExists(fs, name) == name \in DOMAIN fs

\* open(filename, "a") and the DictWriter calls that follow it
AppendRows(fs, name, rows) ==
    LET old == IF FileExists(fs, name) THEN fs[name] ELSE <<cleaned_titles>>
    IN  (name :> (old \o [i \in 1..Len(rows) |-> WriteRow(rows[i])])) @@ fs

\* data rows of all files together
RECURSIVE SumRows(_, _)
SumRows(fs, names) ==
    IF names = {} THEN 0
    ELSE LET n == CHOOSE n \in names : TRUE
         IN  (Len(fs[n]) - 1) + SumRows(fs, names \ {n})

TotalRows(fs) == SumRows(fs, DOMAIN fs)

\* f"{sum_stats['stat1'].split(' ')[0]}_{sum_stats['stat2'].replace(' ', '_')}.csv"
OneStockFilename(rec) ==
    FirstWord(rec.stat1) \o <<"_">> \o Replace(rec.stat2, " ", "_") \o <<".csv">>

\* the reader loop of save_one_stock_to_csv
IsDuplicate(fs, name, new_row) ==
    /\ FileExists(fs, name)
    /\ \E k \in 1..Len(ReadRows(fs[name])) :
          ReadRows(fs[name])[k][<<"date", "_", "range">>] = new_row[<<"date", "_", "range">>]

\* the files after save_one_stock_to_csv(sum_stats, titles)
save_one_stock_to_csv(fs, rec) ==
    IF IsDuplicate(fs, OneStockFilename(rec), RowOf(rec)) THEN fs
    ELSE AppendRows(fs, OneStockFilename(rec), <<RowOf(rec)>>)

\* the file name save_all_to_csv makes of a non-empty stripped input
AllFilename(text) ==
    Replace(IF EndsWithCsv(text) THEN text ELSE text \o <<".csv">>, " ", "_")

\* the files after save_all_to_csv(all_stocks, titles) with this file name
save_all_to_csv(fs, stocks, name) ==
    AppendRows(fs, name, [j \in 1..Len(stocks) |-> RowOf(stocks[j])])

\* ------------------------------------------------------------------- state
VARIABLES
    pc,            \* the input() call the program waits in, or "exited"
    all_stocks,    \* main: the list of analysed records
    stock_data,    \* main: the record analyze_stock returned last
    files,         \* the CSV files of the working directory, by name
    stock_ticker,  \* analyze_stock: the validated ticker
    start_date,    \* analyze_stock: the parsed start date
    stock_number,  \* view_stock_graph: the stock chosen
    data,          \* view_stock_graph: the table fetched for the graph
    ret,           \* exit_menu: the prompt that called it
    inp,           \* the line input() returned last
    msg            \* what the program printed last

vars == <<pc, all_stocks, stock_data, files, stock_ticker, start_date,
          stock_number, data, ret, inp, msg>>

\* ------------------------------------------------------ lines a user types
MenuInputs ==
    {<<Digits[i]>> : i \in 1..(MaxStocks + 4)} \cup {<<"abc">>, <<" ", "1", "2">>}

TickerInputs == {<<"aapl">>, <<" ", "RDDT">>, <<"zzzz">>}

DateInputs ==
    {<<"2024", "-", "03", "-", "20">>, <<"2024", "-", "3", "-", "21">>,
     <<"2024", "-", "03", "-", "22">>, <<"2024", "-", "03", "-", "23">>,
     <<"2024", "-", "02", "-", "30">>, <<"03", "/", "20", "/", "2024">>}

FilenameInputs ==
    {<<" ">>, <<"all">>, <<"all", ".csv">>,
     <<"AAPL", "_", "2024", "-", "03", "-", "21", " ", "to", " ",
       "2024", "-", "03", "-", "21">>}

ExitInputs == {<<"y">>, <<"Y", " ">>, <<"n">>, <<"yes">>}

\* ------------------------------------------------------------------- Init
Init ==
    /\ pc = "main_menu"
    /\ all_stocks = <<>>
    /\ stock_data = NoStats
    /\ files = <<>>
    /\ stock_ticker = NoTicker
    /\ start_date = <<>>
    /\ stock_number = 0
    /\ data = <<>>
    /\ ret = ""
    /\ inp = <<>>
    /\ msg = ""

\* the upper limit off by one
InRange_OffByOne(choice, hi) == choice # <<>> /\ 1 <= choice[1] /\ choice[1] <= hi + 1

\* 1 <= choice <= hi for the result of ParseInt
InRange(choice, hi) == choice # <<>> /\ 1 <= choice[1] /\ choice[1] <= hi

\* what a menu prints for a choice it does not take
InvalidMsg(choice) == IF choice = <<>> THEN "invalid input" ELSE "invalid range"

AnalyzeFrame == <<stock_ticker, start_date>>
GraphFrame == <<stock_number, data>>

\* the test of main before the Stock Access Menu left out
HasStocks_Always(stocks) == TRUE

\* `if not all_stocks` of main, negated
HasStocks(stocks) == stocks # <<>>

\* a cancelled exit that leaves the menu loop for the main menu
CallExit_ToMain(from) == /\ pc' = "exit_menu"
                         /\ ret' = "main_menu"
                         /\ msg' = "sure to exit?"

\* exit_menu() called from the prompt `from`
CallExit(from) == /\ pc' = "exit_menu"
                  /\ ret' = from
                  /\ msg' = "sure to exit?"

\* ------------------------------------------------------- main: the main menu
MainMenu ==
    /\ pc = "main_menu"
    /\ \E text \in MenuInputs :
        LET choice == ParseInt(text) IN
        /\ inp' = text
        /\ IF ~InRange(choice, 4)
           THEN /\ msg' = InvalidMsg(choice)
                /\ UNCHANGED <<pc, ret>>
           ELSE IF choice[1] = 1
           THEN /\ pc' = "ticker"
                /\ msg' = ""
                /\ UNCHANGED ret
           ELSE IF choice[1] = 2
           THEN /\ IF ~HasStocks(all_stocks)
                   THEN pc' = "main_menu" /\ msg' = "analyze first"
                   ELSE pc' = "access_menu" /\ msg' = ""
                /\ UNCHANGED ret
           ELSE IF choice[1] = 3
           THEN /\ msg' = "user guide"
                /\ UNCHANGED <<pc, ret>>
           ELSE CallExit("main_menu")
    /\ UNCHANGED <<all_stocks, stock_data, files, AnalyzeFrame, GraphFrame>>

\* ------------------------------------------------------------ analyze_stock
TickerPrompt ==
    /\ pc = "ticker"
    /\ \E text \in TickerInputs :
        LET t == validate_ticker(Upper(Strip(text))) IN
        /\ inp' = text
        /\ stock_ticker' = t
        /\ IF t = NoTicker
           THEN pc' = "ticker" /\ msg' = "ticker does not exist"
           ELSE pc' = "start_date" /\ msg' = ""
    /\ UNCHANGED <<all_stocks, stock_data, files, start_date, GraphFrame, ret>>

StartDatePrompt ==
    /\ pc = "start_date"
    /\ \E text \in DateInputs :
        LET d == validate_date(Strip(text)) IN
        /\ inp' = text
        /\ start_date' = d
        /\ IF d = <<>>
           THEN pc' = "ticker" /\ msg' = "invalid date"
           ELSE pc' = "end_date" /\ msg' = ""
    /\ UNCHANGED <<all_stocks, stock_data, files, stock_ticker, GraphFrame, ret>>

\* the last prompt of analyze_stock and all that follows it in the loop body;
\* the end date d and summary_statistics live within this one step
EndDatePrompt ==
    /\ pc = "end_date"
    /\ \E text \in DateInputs :
        LET d == validate_date(Strip(text))
            summary_statistics == stock_summary_statistics(stock_ticker, start_date, d)
        IN
        /\ inp' = text
        /\ IF d = <<>>
           THEN /\ pc' = "ticker" /\ msg' = "invalid date"
                /\ UNCHANGED <<all_stocks, stock_data, stock_ticker, start_date>>
           ELSE IF DateGE(start_date, d)
           THEN /\ pc' = "ticker" /\ msg' = "start must be before end"
                /\ UNCHANGED <<all_stocks, stock_data, stock_ticker, start_date>>
           ELSE IF InFuture(start_date, d)
           THEN /\ pc' = "ticker" /\ msg' = "dates in the future"
                /\ UNCHANGED <<all_stocks, stock_data, stock_ticker, start_date>>
           ELSE IF summary_statistics = NoStats
           THEN /\ pc' = "ticker" /\ msg' = "no data"
                /\ UNCHANGED <<all_stocks, stock_data, stock_ticker, start_date>>
           ELSE /\ AlreadyAnalyzed(all_stocks, summary_statistics)
                      \/ Len(all_stocks) < MaxStocks
                /\ all_stocks' = Analyzed(all_stocks, summary_statistics)
                /\ stock_data' = summary_statistics
                /\ pc' = "analysis_menu"
                /\ msg' = "statistics"
                /\ stock_ticker' = NoTicker
                /\ start_date' = <<>>
    /\ UNCHANGED <<files, GraphFrame, ret>>

\* ------------------------------------------- main: the Stock Analysis Menu
AnalysisMenu ==
    /\ pc = "analysis_menu"
    /\ \E text \in MenuInputs :
        LET choice == ParseInt(text) IN
        /\ inp' = text
        /\ IF ~InRange(choice, 4)
           THEN /\ msg' = InvalidMsg(choice)
                /\ UNCHANGED <<pc, ret, files>>
           ELSE IF choice[1] = 1
           THEN /\ IsDuplicate(files, OneStockFilename(stock_data), RowOf(stock_data))
                      \/ TotalRows(files) < MaxRows
                /\ files' = save_one_stock_to_csv(files, stock_data)
                /\ msg' = IF IsDuplicate(files, OneStockFilename(stock_data), RowOf(stock_data))
                          THEN "already saved"
                          ELSE "data saved"
                /\ UNCHANGED <<pc, ret>>
           ELSE IF choice[1] = 2
           THEN /\ pc' = "ticker"
                /\ msg' = ""
                /\ UNCHANGED <<ret, files>>
           ELSE IF choice[1] = 3
           THEN /\ pc' = "main_menu"
                /\ msg' = ""
                /\ UNCHANGED <<ret, files>>
           ELSE /\ CallExit("analysis_menu")
                /\ UNCHANGED files
    /\ UNCHANGED <<all_stocks, stock_data, AnalyzeFrame, GraphFrame>>

\* --------------------------------------------- main: the Stock Access Menu
AccessMenu ==
    /\ pc = "access_menu"
    /\ \E text \in MenuInputs :
        LET choice == ParseInt(text) IN
        /\ inp' = text
        /\ IF ~InRange(choice, 5)
           THEN /\ msg' = InvalidMsg(choice)
                /\ UNCHANGED <<pc, ret>>
           ELSE IF choice[1] = 1
           THEN /\ msg' = "all analyzed stocks"
                /\ UNCHANGED <<pc, ret>>
           ELSE IF choice[1] = 2
           THEN /\ pc' = "filename"
                /\ msg' = ""
                /\ UNCHANGED ret
           ELSE IF choice[1] = 3
           THEN /\ pc' = "select_stock"
                /\ msg' = "stocks you have analyzed"
                /\ UNCHANGED ret
           ELSE IF choice[1] = 4
           THEN /\ pc' = "main_menu"
                /\ msg' = ""
                /\ UNCHANGED ret
           ELSE CallExit("access_menu")
    /\ UNCHANGED <<all_stocks, stock_data, files, AnalyzeFrame, GraphFrame>>

\* ----------------------------------------------------------- save_all_to_csv
FilenamePrompt ==
    /\ pc = "filename"
    /\ \E text \in FilenameInputs :
        LET filename == Strip(text) IN
        /\ inp' = text
        /\ IF filename = <<>>
           THEN /\ msg' = ""
                /\ UNCHANGED <<pc, files>>
           ELSE /\ TotalRows(files) + Len(all_stocks) <= MaxRows
                /\ files' = save_all_to_csv(files, all_stocks, AllFilename(filename))
                /\ pc' = "access_menu"
                /\ msg' = "data saved"
    /\ UNCHANGED <<all_stocks, stock_data, AnalyzeFrame, GraphFrame, ret>>

\* ---------------------------------------------------------- view_stock_graph
\* s.split(" to "): the text before and after the first " to "
SplitTo(s) ==
    LET at == {i \in 1..(Len(s) - 2) : s[i] = " " /\ s[i + 1] = "to" /\ s[i + 2] = " "}
        i == CHOOSE i \in at : \A j \in at : i <= j
    IN  <<SubSeq(s, 1, i - 1), SubSeq(s, i + 3, Len(s))>>

\* the table view_stock_graph fetches for all_stocks[stock_number - 1]
GraphData(rec) ==
    History(FirstWord(rec.stat1), ParseDate(SplitTo(rec.stat2)[1]),
            ParseDate(SplitTo(rec.stat2)[2]))

SelectStock ==
    /\ pc = "select_stock"
    /\ \E text \in MenuInputs :
        LET choice == ParseInt(text) IN
        /\ inp' = text
        /\ IF ~InRange(choice, Len(all_stocks) + 3)
           THEN /\ msg' = InvalidMsg(choice)
                /\ UNCHANGED <<pc, ret, GraphFrame>>
           ELSE IF choice[1] = Len(all_stocks) + 1
           THEN /\ pc' = "access_menu"
                /\ msg' = ""
                /\ UNCHANGED <<ret, GraphFrame>>
           ELSE IF choice[1] = Len(all_stocks) + 2
           THEN /\ pc' = "main_menu"
                /\ msg' = ""
                /\ UNCHANGED <<ret, GraphFrame>>
           ELSE IF choice[1] = Len(all_stocks) + 3
           THEN /\ CallExit("select_stock")
                /\ UNCHANGED GraphFrame
           ELSE /\ stock_number' = choice[1]
                /\ data' = GraphData(all_stocks[choice[1]])
                /\ pc' = "graph_stat"
                /\ msg' = "available statistics"
                /\ UNCHANGED ret
    /\ UNCHANGED <<all_stocks, stock_data, files, AnalyzeFrame>>

GraphStat ==
    /\ pc = "graph_stat"
    /\ \E text \in MenuInputs :
        LET choice == ParseInt(text) IN
        /\ inp' = text
        /\ IF ~InRange(choice, 5)
           THEN /\ msg' = InvalidMsg(choice)
                /\ UNCHANGED <<pc, GraphFrame>>
           ELSE /\ pc' = "access_menu"
                /\ msg' = "graph"
                /\ stock_number' = 0
                /\ data' = <<>>
    /\ UNCHANGED <<all_stocks, stock_data, files, AnalyzeFrame, ret>>

\* ------------------------------------------------------------------ exit_menu
ExitMenu ==
    /\ pc = "exit_menu"
    /\ \E text \in ExitInputs :
        LET exit_choice == Lower(Strip(text)) IN
        /\ inp' = text
        /\ IF exit_choice = <<"y">>
           THEN /\ pc' = "exited"
                /\ msg' = "exiting"
                /\ ret' = ""
           ELSE IF exit_choice = <<"n">>
           THEN /\ pc' = ret
                /\ msg' = ""
                /\ ret' = ""
           ELSE /\ msg' = "invalid input"
                /\ UNCHANGED <<pc, ret>>
    /\ UNCHANGED <<all_stocks, stock_data, files, AnalyzeFrame, GraphFrame>>

Next ==
    \/ MainMenu
    \/ TickerPrompt
    \/ StartDatePrompt
    \/ EndDatePrompt
    \/ AnalysisMenu
    \/ AccessMenu
    \/ FilenamePrompt
    \/ SelectStock
    \/ GraphStat
    \/ ExitMenu

Spec == Init /\ [][Next]_vars

\* ----------------------------------------------------------------- claims
SameKey(a, b) == a.stat1 = b.stat1 /\ a.stat2 = b.stat2

\* the record analyze_stock makes of the validated ticker, the parsed start
\* date and the end date typed last
AnalysedRecord ==
    stock_summary_statistics(stock_ticker, start_date, ParseDate(Strip(inp')))

ReanalysisKeepsList ==
    (/\ pc = "end_date" /\ pc' = "analysis_menu"
     /\ \E i \in 1..Len(all_stocks) : SameKey(all_stocks[i], stock_data'))
    => all_stocks' = all_stocks

\* C1: all_stocks never holds two records with the same (stat1, stat2), and
\* analysing a (ticker, date range) that is already in the list leaves the
\* list as it is.
C1_NoDuplicateStocks ==
    /\ [](\A i, j \in 1..Len(all_stocks) :
             SameKey(all_stocks[i], all_stocks[j]) => i = j)
    /\ [][ReanalysisKeepsList]_vars

\* a record that was in the list before another one has just been analysed again
C1_Witness ==
    /\ pc = "analysis_menu" /\ msg = "statistics"
    /\ Len(all_stocks) = 2
    /\ stock_data = all_stocks[1]

\* the data rows of a file that hold this record's company and date range
RowsOf(fs, name, rec) ==
    {k \in 1..Len(ReadRows(fs[name])) :
        /\ ReadRows(fs[name])[k][<<"company">>] = rec.stat1
        /\ ReadRows(fs[name])[k][<<"date", "_", "range">>] = rec.stat2}

JustSavedOne == pc = "analysis_menu" /\ msg \in {"data saved", "already saved"}

\* C2: after save_one_stock_to_csv, whether it wrote or skipped, the file of
\* the record holds the record's (company, date range) row exactly once.
C2_SavedExactlyOnce ==
    JustSavedOne =>
        /\ FileExists(files, OneStockFilename(stock_data))
        /\ Cardinality(RowsOf(files, OneStockFilename(stock_data), stock_data)) = 1

\* C3: no CSV file holds two rows with the same company and date range.
C3_NoDuplicateRows ==
    \A name \in DOMAIN files :
        \A k, l \in 1..Len(ReadRows(files[name])) :
            (/\ ReadRows(files[name])[k][<<"company">>] = ReadRows(files[name])[l][<<"company">>]
             /\ ReadRows(files[name])[k][<<"date", "_", "range">>]
                    = ReadRows(files[name])[l][<<"date", "_", "range">>])
            => k = l

KeptOrAppended ==
    \/ all_stocks' = all_stocks
    \/ /\ pc = "end_date" /\ pc' = "analysis_menu"
       /\ History(stock_ticker.ticker, start_date, ParseDate(Strip(inp'))) # <<>>
       /\ stock_data' = AnalysedRecord
       /\ all_stocks' = Append(all_stocks, stock_data')

\* C4: every step leaves all_stocks as it is, or is the return of
\* analyze_stock after a fetch that was not empty and appends the fetched
\* record at the end of the list.
C4_OnlyGrows == [][KeptOrAppended]_vars

\* an exit was cancelled while the list held records
C4_Witness ==
    /\ pc = "access_menu" /\ inp = <<"n">>
    /\ Len(all_stocks) = 2

\* the checks of analyze_stock, on the validated ticker, the parsed start
\* date and the end date typed last
AllChecksPass ==
    LET end == ParseDate(Strip(inp')) IN
    /\ stock_ticker # NoTicker /\ LongName(stock_ticker.ticker) # <<>>
    /\ start_date # <<>>
    /\ end # <<>>
    /\ DateLT(start_date, end)
    /\ ~DateLT(Today, start_date) /\ ~DateLT(Today, end)
    /\ History(stock_ticker.ticker, start_date, end) # <<>>

AnalyzePrompts == {"ticker", "start_date", "end_date"}

AnalyzeStep ==
    pc \in AnalyzePrompts =>
        (/\ ((pc' = "analysis_menu" \/ all_stocks' # all_stocks)
                => (pc = "end_date" /\ AllChecksPass /\ stock_data' = AnalysedRecord))
         /\ ((\/ pc = "ticker" /\ LongName(Upper(Strip(inp'))) = <<>>
              \/ pc = "start_date" /\ ParseDate(Strip(inp')) = <<>>
              \/ pc = "end_date" /\ ~AllChecksPass)
                => (pc' = "ticker" /\ msg' # "" /\ all_stocks' = all_stocks)))

\* C5: analyze_stock returns, and all_stocks changes, only from the end date
\* prompt with every check passed; a prompt of analyze_stock whose input
\* fails a check prints a message and goes back to the ticker prompt with
\* all_stocks as it was.
C5_ReturnsOnlyChecked == [][AnalyzeStep]_vars

\* an empty date range was reported after a stock had been analysed
C5_Witness ==
    /\ pc = "ticker" /\ msg = "no data"
    /\ all_stocks # <<>>

\* the numbered menus and the highest number each accepts
Menus == {"main_menu", "analysis_menu", "access_menu", "select_stock", "graph_stat"}

MenuHigh(menu) ==
    CASE menu \in {"main_menu", "analysis_menu"} -> 4
      [] menu \in {"access_menu", "graph_stat"} -> 5
      [] OTHER -> Len(all_stocks) + 3

InvalidChoiceStep ==
    (/\ pc \in Menus
     /\ \/ ParseInt(inp') = <<>>
        \/ ParseInt(inp')[1] < 1
        \/ ParseInt(inp')[1] > MenuHigh(pc))
    => (/\ pc' = pc
        /\ msg' \in {"invalid input", "invalid range"}
        /\ UNCHANGED <<all_stocks, stock_data, files, stock_ticker, start_date,
                       stock_number, data, ret>>)

\* C6: in a numbered menu an input that is no integer of the menu's range
\* changes nothing but the line read and the message printed, which says the
\* input is invalid; the program stays in the same menu.
C6_InvalidChoiceReprompts == [][InvalidChoiceStep]_vars

\* the stock selection re-prompted after a number out of its range
C6_Witness ==
    /\ pc = "select_stock" /\ msg = "invalid range"
    /\ ParseInt(inp) # <<>> /\ ParseInt(inp)[1] = Len(all_stocks) + 4

\* the menus that offer Exit, and the number of that choice
ExitMenus == {"main_menu", "analysis_menu", "access_menu", "select_stock"}

ExitChoice(menu) ==
    CASE menu \in {"main_menu", "analysis_menu"} -> 4
      [] menu = "access_menu" -> 5
      [] OTHER -> Len(all_stocks) + 3

ExitStep ==
    /\ ((pc' = "exited" /\ pc # "exited")
          => (pc = "exit_menu" /\ Lower(Strip(inp')) = <<"y">>))
    /\ ((pc' = "exit_menu" /\ pc # "exit_menu")
          => (/\ pc \in ExitMenus
              /\ ParseInt(inp') = <<ExitChoice(pc)>>
              /\ ret' = pc))
    /\ ((pc = "exit_menu" /\ Lower(Strip(inp')) = <<"n">>)
          => (pc' = ret /\ ret \in ExitMenus /\ all_stocks' = all_stocks))
    /\ ((pc = "exit_menu" /\ Lower(Strip(inp')) \notin {<<"y">>, <<"n">>})
          => (pc' = "exit_menu" /\ ret' = ret /\ all_stocks' = all_stocks))

\* C7: the program exits only from the confirmation of exit_menu on the
\* answer y; the confirmation is reached only by the Exit choice of a menu
\* and remembers that menu; the answer n goes back to that menu with
\* all_stocks as it was; any other answer asks again.
C7_ExitOnlyConfirmed == [][ExitStep]_vars

\* an exit chosen at the stock selection was cancelled
C7_Witness ==
    /\ pc = "select_stock" /\ inp = <<"n">>
    /\ all_stocks # <<>>

\* the prompt shown takes an input that calls exit_menu or confirms the exit
OffersExit == ENABLED (Next /\ pc' \in {"exit_menu", "exited"})

\* the prompt shown takes an input that leads to a menu offering Exit and
\* completes no analysis, save or graph
OffersWayBack ==
    ENABLED (/\ Next
             /\ pc' \in ExitMenus /\ pc' # pc
             /\ msg' \notin {"statistics", "data saved", "already saved", "graph"}
             /\ UNCHANGED <<all_stocks, files>>)

\* C8: wherever the program waits for input, the prompt offers Exit or a way
\* back to a menu that offers Exit, without completing the pending operation.
C8_ExitAlwaysOffered == pc # "exited" => (OffersExit \/ OffersWayBack)

\* C9: the Stock Access Menu and what it calls run only with a non-empty
\* all_stocks, and the stock number view_stock_graph reads the list with is
\* within 1..len(all_stocks).
C9_AccessNeedsStocks ==
    /\ ((\/ pc \in {"access_menu", "filename", "select_stock", "graph_stat"}
         \/ pc = "exit_menu" /\ ret \in {"access_menu", "select_stock"})
            => all_stocks # <<>>)
    /\ (pc = "graph_stat" =>
            (/\ stock_number - 1 \in 0..(Len(all_stocks) - 1)
             /\ data = GraphData(all_stocks[stock_number])))

\* the last of two analysed stocks was chosen for a graph
C9_Witness ==
    /\ pc = "graph_stat"
    /\ Len(all_stocks) = 2 /\ stock_number = 2

\* C10: save_one_stock_to_csv skips the write only when the file already
\* holds a row of the same stock with the same date range.
C10_SkipsOnlySameStock ==
    (pc = "analysis_menu" /\ msg = "already saved") =>
        /\ FileExists(files, OneStockFilename(stock_data))
        /\ RowsOf(files, OneStockFilename(stock_data), stock_data) # {}

\* the bars the record summarises: those of its symbol from the first to the
\* last day of stat2, both included (what the fetch of analyze_stock returned)
SummarisedDays(rec) ==
    LET first == ParseDate(SplitTo(rec.stat2)[1])
        last == ParseDate(SplitTo(rec.stat2)[2])
    IN  SelectSeq(MarketDays(FirstWord(rec.stat1)),
                  LAMBDA d : DateGE(d, first) /\ ~DateLT(last, d))

\* C11: the table view_stock_graph fetches for the chosen record holds
\* exactly the trading days the record summarises, as many as stat3 counts,
\* and is not empty.
C11_GraphCoversRecord ==
    pc = "graph_stat" =>
        /\ data = SummarisedDays(all_stocks[stock_number])
        /\ <<Len(data)>> = ParseInt(all_stocks[stock_number].stat3)
        /\ data # <<>>

====
